---- MODULE Spec2Model ----
(***************************************************************************)
(* Model of cxxitimer: the ITimer state machine (start / stop / speed      *)
(* rescaling / interval changes / snapshots), the three per-kind singleton *)
(* flags, the timeval <-> double arithmetic it scales with, and the        *)
(* interval timers of the operating system it programs.                    *)
(*                                                                         *)
(* The arithmetic is IEEE-754 binary64 with round-to-nearest-even, carried *)
(* out on arbitrary precision naturals (sequences of 10-bit limbs), so that *)
(* the truncations of double_to_timeval are the ones the program makes.    *)
(***************************************************************************)
EXTENDS Integers, Sequences, FiniteSets, TLC

(***************************************************************************)
(* Arbitrary precision naturals: little-endian sequences of limbs, without *)
(* leading zero limbs; <<>> is zero.                                       *)
(***************************************************************************)
RECURSIVE Pow2(_)
Pow2(e) == IF e = 0 THEN 1 ELSE 2 * Pow2(e - 1)

\* bits of a limb, and of the significand of a double
LimbBits == 10
LimbBase == Pow2(LimbBits)
MantBits == 53

RECURSIVE BigNorm(_)
BigNorm(a) ==
    IF a = <<>> THEN <<>>
    ELSE IF a[Len(a)] = 0 THEN BigNorm(SubSeq(a, 1, Len(a) - 1))
    ELSE a

RECURSIVE BigFromNat(_)
BigFromNat(v) ==
    IF v = 0 THEN <<>> ELSE <<v % LimbBase>> \o BigFromNat(v \div LimbBase)

RECURSIVE BigToNat(_)
BigToNat(a) ==
    IF a = <<>> THEN 0 ELSE a[1] + LimbBase * BigToNat(Tail(a))

RECURSIVE BitLenNat(_)
BitLenNat(v) == IF v = 0 THEN 0 ELSE 1 + BitLenNat(v \div 2)

BigBitLen(a) ==
    IF a = <<>> THEN 0 ELSE (Len(a) - 1) * LimbBits + BitLenNat(a[Len(a)])

BigLimb(a, i) == IF i <= Len(a) THEN a[i] ELSE 0

RECURSIVE BigAddFrom(_, _, _, _)
BigAddFrom(a, b, i, carry) ==
    IF i > Len(a) /\ i > Len(b)
    THEN IF carry = 0 THEN <<>> ELSE <<carry>>
    ELSE <<(BigLimb(a, i) + BigLimb(b, i) + carry) % LimbBase>>
         \o BigAddFrom(a, b, i + 1, (BigLimb(a, i) + BigLimb(b, i) + carry) \div LimbBase)

BigAdd(a, b) == BigAddFrom(a, b, 1, 0)

\* a - b for a >= b
RECURSIVE BigSubFrom(_, _, _, _)
BigSubFrom(a, b, i, borrow) ==
    IF i > Len(a) THEN <<>>
    ELSE IF BigLimb(a, i) - BigLimb(b, i) - borrow < 0
    THEN <<BigLimb(a, i) - BigLimb(b, i) - borrow + LimbBase>> \o BigSubFrom(a, b, i + 1, 1)
    ELSE <<BigLimb(a, i) - BigLimb(b, i) - borrow>> \o BigSubFrom(a, b, i + 1, 0)

BigSub(a, b) == BigNorm(BigSubFrom(a, b, 1, 0))

\* -1, 0, 1 as a < b, a = b, a > b
RECURSIVE BigCmpFrom(_, _, _)
BigCmpFrom(a, b, i) ==
    IF i = 0 THEN 0
    ELSE IF a[i] < b[i] THEN -1
    ELSE IF a[i] > b[i] THEN 1
    ELSE BigCmpFrom(a, b, i - 1)

BigCmp(a, b) ==
    IF Len(a) < Len(b) THEN -1
    ELSE IF Len(a) > Len(b) THEN 1
    ELSE BigCmpFrom(a, b, Len(a))

\* a * m for a natural m < 2^20
RECURSIVE BigMulSmallFrom(_, _, _, _)
BigMulSmallFrom(a, m, i, carry) ==
    IF i > Len(a) THEN BigFromNat(carry)
    ELSE <<(a[i] * m + carry) % LimbBase>>
         \o BigMulSmallFrom(a, m, i + 1, (a[i] * m + carry) \div LimbBase)

BigMulSmall(a, m) == IF m = 0 THEN <<>> ELSE BigMulSmallFrom(a, m, 1, 0)

RECURSIVE BigZeros(_)
BigZeros(j) == IF j = 0 THEN <<>> ELSE <<0>> \o BigZeros(j - 1)

BigShlLimbs(a, j) == IF a = <<>> THEN <<>> ELSE BigZeros(j) \o a

RECURSIVE BigMulFrom(_, _, _)
BigMulFrom(a, b, i) ==
    IF i > Len(b) THEN <<>>
    ELSE BigAdd(BigShlLimbs(BigMulSmall(a, b[i]), i - 1), BigMulFrom(a, b, i + 1))

BigMul(a, b) == BigMulFrom(a, b, 1)

\* a * 2^s
BigShl(a, s) == BigShlLimbs(BigMulSmall(a, Pow2(s % LimbBits)), s \div LimbBits)

\* quotient and remainder of a by a natural 0 < d < 2^20
BigDivDigit(rest, digit) == [q |-> rest.q \o <<digit>>, r |-> rest.r]

RECURSIVE BigDivSmallFrom(_, _, _, _)
BigDivSmallFrom(a, d, i, rem) ==
    IF i = 0 THEN [q |-> <<>>, r |-> rem]
    ELSE BigDivDigit(BigDivSmallFrom(a, d, i - 1, (rem * LimbBase + a[i]) % d),
                     (rem * LimbBase + a[i]) \div d)

BigDivNorm(res) == [q |-> BigNorm(res.q), r |-> res.r]

BigDivSmall(a, d) == BigDivNorm(BigDivSmallFrom(a, d, Len(a), 0))

\* the limbs of a below and from limb j + 1
BigLow(a, j) == SubSeq(a, 1, IF j < Len(a) THEN j ELSE Len(a))
BigHigh(a, j) == IF j < Len(a) THEN SubSeq(a, j + 1, Len(a)) ELSE <<>>

BigShrOf(dv, low) == [q |-> dv.q, sticky |-> (dv.r # 0) \/ (BigNorm(low) # <<>>)]

\* floor(a / 2^s), and whether a bit was dropped
BigShr(a, s) ==
    BigShrOf(BigDivSmall(BigHigh(a, s \div LimbBits), Pow2(s % LimbBits)),
             BigLow(a, s \div LimbBits))

BigOdd(a) == a # <<>> /\ a[1] % 2 = 1

(***************************************************************************)
(* IEEE-754 binary64 values.  A finite double is (-1)^neg * n / 2^k with n *)
(* of at most 53 bits, kept canonical (n odd or k = 0).  Exponent overflow *)
(* and underflow are outside the ranges the model draws its inputs from.   *)
(***************************************************************************)
FNaN == [cls |-> "nan", neg |-> FALSE, n |-> <<>>, k |-> 0]
FInf(neg) == [cls |-> "inf", neg |-> neg, n |-> <<>>, k |-> 0]
FZero == [cls |-> "fin", neg |-> FALSE, n |-> <<>>, k |-> 0]

RECURSIVE TrailingZeros(_)
TrailingZeros(v) == IF v % 2 = 1 THEN 0 ELSE 1 + TrailingZeros(v \div 2)

RECURSIVE FCanonLimbs(_, _)
FCanonLimbs(n, k) ==
    IF n # <<>> /\ n[1] = 0 /\ k >= LimbBits
    THEN FCanonLimbs(Tail(n), k - LimbBits)
    ELSE [n |-> n, k |-> k]

Min(a, b) == IF a < b THEN a ELSE b

FCanonBits(neg, c, s) ==
    [cls |-> "fin", neg |-> neg, n |-> BigDivSmall(c.n, Pow2(s)).q, k |-> c.k - s]

FCanonOf(neg, c) ==
    FCanonBits(neg, c, Min(IF c.n[1] = 0 THEN LimbBits ELSE TrailingZeros(c.n[1]), c.k))

FCanon(neg, n0, k0) ==
    IF n0 = <<>> THEN [cls |-> "fin", neg |-> neg, n |-> <<>>, k |-> 0]
    ELSE FCanonOf(neg, FCanonLimbs(n0, k0))

\* FRound, step by step: n / 2^kk is the rounded quotient
FRoundDone(neg, n, kk) ==
    IF kk >= 0 THEN FCanon(neg, n, kk) ELSE FCanon(neg, BigShl(n, 0 - kk), 0)

\* m is the quotient cut to MantBits bits with the bit below them in m.r;
\* round up on more than a half, or on a half to the even neighbour
FRoundUp(neg, dv, sh, m, kk) ==
    FRoundDone(neg,
               IF m.r = 1 /\ (sh.sticky \/ dv.r # 0 \/ BigOdd(m.q))
               THEN BigAdd(m.q, <<1>>) ELSE m.q,
               kk)

FRoundHalf(neg, dv, sh, kk) == FRoundUp(neg, dv, sh, BigDivSmall(sh.q, 2), kk)

\* t is the number of bits the quotient has beyond MantBits
FRoundCut(neg, dv, t, kj) == FRoundHalf(neg, dv, BigShr(dv.q, t - 1), kj - t)

FRoundQuot(neg, dv, kj) == FRoundCut(neg, dv, BigBitLen(dv.q) - MantBits, kj)

\* p is shifted by j limbs so that the quotient has MantBits + 2 bits or more
FRoundBy(neg, p, q, k, j) ==
    FRoundQuot(neg, BigDivSmall(BigShlLimbs(p, j), q), k + j * LimbBits)

FRoundNeed(p, q) == MantBits + 2 + BitLenNat(q) - BigBitLen(p)

FRoundScaled(neg, p, q, k) ==
    FRoundBy(neg, p, q, k,
             IF FRoundNeed(p, q) <= 0 THEN 0
             ELSE (FRoundNeed(p, q) + LimbBits - 1) \div LimbBits)

\* the double nearest to (-1)^neg * p0 / (q * 2^k0), ties to even; 0 < q < 2^20
FRound(neg, p0, q, k0) ==
    IF p0 = <<>> THEN FCanon(neg, <<>>, 0)
    ELSE IF k0 < 0 THEN FRoundScaled(neg, BigShl(p0, 0 - k0), q, 0)
    ELSE FRoundScaled(neg, p0, q, k0)

\* static_cast<double>(i) for an integer of the model's range
FFromInt(i) == FCanon(i < 0, BigFromNat(IF i < 0 THEN 0 - i ELSE i), 0)

\* the double m / 2^k, for literals
FLit(m, k) == FCanon(FALSE, BigFromNat(m), k)

FIsZero(x) == x.cls = "fin" /\ x.n = <<>>

\* x * y
FMul(x, y) ==
    IF x.cls # "fin" \/ y.cls # "fin"
    THEN IF x.cls = "nan" \/ y.cls = "nan" \/ FIsZero(x) \/ FIsZero(y)
         THEN FNaN ELSE FInf(x.neg # y.neg)
    ELSE FRound(x.neg # y.neg, BigMul(x.n, y.n), 1, x.k + y.k)

\* x / y, for y with a mantissa below 2^20
FDiv(x, y) ==
    IF x.cls = "nan" \/ y.cls = "nan" THEN FNaN
    ELSE IF x.cls = "inf" THEN (IF y.cls = "inf" THEN FNaN ELSE FInf(x.neg # y.neg))
    ELSE IF y.cls = "inf" THEN FCanon(x.neg # y.neg, <<>>, 0)
    ELSE IF FIsZero(y) THEN (IF FIsZero(x) THEN FNaN ELSE FInf(x.neg # y.neg))
    ELSE FRound(x.neg # y.neg, x.n, BigToNat(y.n), x.k - y.k)

Max(a, b) == IF a > b THEN a ELSE b

\* a / 2^k + b / 2^k with the signs given
FAddAligned(xneg, a, yneg, b, k) ==
    FRound(IF xneg = yneg \/ BigCmp(a, b) >= 0 THEN xneg ELSE yneg,
           IF xneg = yneg THEN BigAdd(a, b)
           ELSE IF BigCmp(a, b) >= 0 THEN BigSub(a, b) ELSE BigSub(b, a),
           1, k)

\* x + y
FAdd(x, y) ==
    IF x.cls # "fin" \/ y.cls # "fin"
    THEN IF x.cls = "nan" \/ y.cls = "nan" THEN FNaN
         ELSE IF x.cls = "inf" /\ y.cls = "inf" /\ x.neg # y.neg THEN FNaN
         ELSE IF x.cls = "inf" THEN x ELSE y
    ELSE FAddAligned(x.neg, BigShl(x.n, Max(x.k, y.k) - x.k),
                     y.neg, BigShl(y.n, Max(x.k, y.k) - y.k), Max(x.k, y.k))

\* fmod(x, 1.0): exact, with the sign of x
FMod1(x) ==
    IF x.cls # "fin" THEN FNaN
    ELSE FCanon(x.neg, BigSub(x.n, BigShl(BigShr(x.n, x.k).q, x.k)), x.k)

\* conversion to an integer type: truncation toward zero
FTrunc(x) == (IF x.neg THEN 0 - 1 ELSE 1) * BigToNat(BigShr(x.n, x.k).q)

\* x <= 0.0, x < 0.0 (false for NaN)
FLeqZero(x) == x.cls # "nan" /\ (FIsZero(x) \/ x.neg)
FIsNaN(x) == x.cls = "nan"
FIsInf(x) == x.cls = "inf"

(***************************************************************************)
(* timeval arithmetic (cxxitimer.cpp)                                      *)
(***************************************************************************)
USEC_PER_SEC == FLit(1000000, 0)

\* what the conversion of a non-finite double to an integer yields on the
\* target (the "integer indefinite" value; undefined in C++, never reached
\* with a validated speed factor)
IntIndefinite == 0 - 2147483647

TV(s, u) == [tv_sec |-> s, tv_usec |-> u]

timeval_to_double(time) ==
    FAdd(FFromInt(time.tv_sec), FDiv(FFromInt(time.tv_usec), USEC_PER_SEC))

double_to_timeval(time) ==
    IF time.cls # "fin" THEN TV(IntIndefinite, IntIndefinite)
    ELSE TV(FTrunc(time), FTrunc(FMul(FMod1(time), USEC_PER_SEC)))

\* a multiplication that scales the two fields of the timeval one by one
TimevalMulFields(left, right) ==
    TV(FTrunc(FMul(FFromInt(left.tv_sec), right)), FTrunc(FMul(FFromInt(left.tv_usec), right)))

\* operator*(timeval, double), operator*=(timeval, double)
TimevalMul(left, right) == double_to_timeval(FMul(timeval_to_double(left), right))

\* operator/(timeval, double), operator/=(timeval, double)
TimevalDiv(left, right) == double_to_timeval(FDiv(timeval_to_double(left), right))

(***************************************************************************)
(* Bounds of the model                                                     *)
(***************************************************************************)
\* object slots; a kind can hold one object, the spare slot stays empty
MaxObjects == 4
\* constructions in the program of all kinds
MaxConstructs == 4
\* constructions in the program of one kind
MaxAgain == 2
\* starts in the program that writes and reads snapshots
MaxStarts == 1
\* speed changes and clock steps in the program that changes speed
MaxAdjusts == 3
MaxTicks == 1
\* clock steps of the program of test.cpp: 10 s in five expirations and two steps
TestTicks == 7
\* clock steps of the program whose interval loses a microsecond
LossyTicks == 3
\* clock steps of the program whose calls are taken system call by system call
StepTicks == 2

\* scalings of one timeval, one after the other
MaxScalings == 2

(***************************************************************************)
(* State                                                                   *)
(***************************************************************************)
VARIABLES
    instance_exists,  \* ITimer_Real/_Virtual/_Prof::instance_exists, by kind
    timers,           \* the ITimer objects, by slot; NoTimer for a free slot
    clock,            \* the interval timer of the process, by kind
    watch,            \* per clock: time elapsed and expirations since start()
    file,             \* the record last written by to_fstream
    last,             \* the last call: operation, object, outcome, syscalls
    used,             \* how much of the bounds the behaviour has used
    exited,           \* the process has called exit()
    hist,             \* per object: what its callers gave it and did with it
    cfg               \* the program: the inputs it passes and how far it goes

vars == <<instance_exists, timers, clock, watch, file, last, used, exited, hist, cfg>>

ITIMER_REAL == "ITIMER_REAL"
ITIMER_VIRTUAL == "ITIMER_VIRTUAL"
ITIMER_PROF == "ITIMER_PROF"
Kinds == {ITIMER_REAL, ITIMER_VIRTUAL, ITIMER_PROF}

Objects == 1 .. MaxObjects
NoTimer == [absent |-> TRUE]
NoRecord == [absent |-> TRUE]
NoValue == [absent |-> TRUE]

\* outcomes of a call: the exception thrown, named as in the error taxonomy
Ok == "ok"
AlreadyExists == "logic_error: instance exists"
AlreadyStarted == "logic_error: timer already started"
AlreadyStopped == "runtime_error: timer already stopped"
TimerRunning == "logic_error: timer is running"
InvalidSpeedFactor == "invalid_argument: speed factor"
NegativeInterval == "runtime_error: timer interval is negative"
NegativeValue == "runtime_error: timer value is negative"
DegenerateInterval == "runtime_error: invalid timer values"
ClockProgrammingFailed == "system_error: call of setitimer failed"
ClockReadFailed == "system_error: call of getitimer failed"
NotRunning == "runtime_error: timer not running"

ZeroTV == TV(0, 0)

\* static constexpr itimerval STOP_TIMER = {{0, 0}, {0, 0}}
STOP_TIMER == [it_interval |-> ZeroTV, it_value |-> ZeroTV]

F1 == FLit(1, 0)

\* microseconds of a timeval
Usec(tv) == tv.tv_sec * 1000000 + tv.tv_usec
FromUsec(u) == TV(u \div 1000000, u % 1000000)

Armed(K) == clock[K].it_value # ZeroTV

(***************************************************************************)
(* The interval timers of the operating system: setitimer(2), getitimer(2) *)
(***************************************************************************)
ValidTimeval(tv) == tv.tv_sec >= 0 /\ tv.tv_usec >= 0 /\ tv.tv_usec <= 999999

\* setitimer(which, new, old): EINVAL for a malformed timeval, or a failure
\* the environment decides (envok = FALSE); on success the previous setting
\* is returned and replaced in one step.  old stays zero-initialised on failure.
setitimer(K, new, envok) ==
    IF envok /\ ValidTimeval(new.it_interval) /\ ValidTimeval(new.it_value)
    THEN [rc |-> 0, old |-> clock[K], now |-> new]
    ELSE [rc |-> 0 - 1, old |-> STOP_TIMER, now |-> clock[K]]

\* getitimer(which, cur)
getitimer(K, envok) ==
    IF envok THEN [rc |-> 0, cur |-> clock[K]]
    ELSE [rc |-> 0 - 1, cur |-> STOP_TIMER]

\* the last call: its operation, object, argument, outcome, returned value
\* and the system calls it made
Called(op, o, arg, err, ret, calls) ==
    [op |-> op, obj |-> o, arg |-> arg, err |-> err, ret |-> ret, calls |-> calls]

(***************************************************************************)
(* Initial state: no object, no flag, every clock disarmed                 *)
(***************************************************************************)
Start0 ==
    /\ instance_exists = [K \in Kinds |-> FALSE]
    /\ timers = [o \in Objects |-> NoTimer]
    /\ clock = [K \in Kinds |-> STOP_TIMER]
    /\ watch = [K \in Kinds |-> [elapsed |-> 0, expirations |-> 0, pristine |-> FALSE]]
    /\ file = NoRecord
    /\ last = Called("none", 0, NoValue, Ok, NoValue, <<>>)
    /\ used = [constructs |-> 0, starts |-> 0, adjusts |-> 0, ticks |-> 0, writes |-> 0, reads |-> 0,
               scalings |-> 0]
    /\ exited = FALSE
    /\ hist = [o \in Objects |-> NoValue]

(***************************************************************************)
(* ITimer: the method bodies, as the outcome of a call on object state t   *)
(* [err: the exception or Ok, t: the object after the call, clk: its clock *)
(* after the call, calls: the system calls made, programmed: a setitimer    *)
(* call succeeded]                                                         *)
(***************************************************************************)
Outcome(err, t, clk, calls, programmed) ==
    [err |-> err, t |-> t, clk |-> clk, calls |-> calls, programmed |-> programmed]

\* ITimer::ITimer(int type, const timeval &interval, const timeval &value)
ITimer(type, interval, value) ==
    [type |-> type, timer_value |-> value, timer_interval |-> interval,
     speed_factor |-> F1, running |-> FALSE]

\* start() that programs the clock with any interval that is not negative
start_timer_any(t, timer_val, envok) ==
    IF timer_val.it_interval.tv_sec < 0
    THEN Outcome(NegativeInterval, t, clock[t.type], <<>>, FALSE)
    ELSE IF timer_val.it_value.tv_sec < 0
    THEN Outcome(NegativeValue, t, clock[t.type], <<>>, FALSE)
    ELSE IF setitimer(t.type, timer_val, envok).rc < 0
    THEN Outcome(ClockProgrammingFailed, t, clock[t.type], <<"setitimer">>, FALSE)
    ELSE Outcome(Ok, [t EXCEPT !.running = TRUE],
                 setitimer(t.type, timer_val, envok).now, <<"setitimer">>, TRUE)

\* start() that sets running before it programs the clock
start_timer_early(t, timer_val, envok) ==
    IF timer_val.it_interval.tv_sec < 0
    THEN Outcome(NegativeInterval, t, clock[t.type], <<>>, FALSE)
    ELSE IF timer_val.it_value.tv_sec < 0
    THEN Outcome(NegativeValue, t, clock[t.type], <<>>, FALSE)
    ELSE IF timer_val.it_interval.tv_sec = 0 /\ timer_val.it_interval.tv_usec = 0
    THEN Outcome(DegenerateInterval, t, clock[t.type], <<>>, FALSE)
    ELSE IF setitimer(t.type, timer_val, envok).rc < 0
    THEN Outcome(ClockProgrammingFailed, [t EXCEPT !.running = TRUE], clock[t.type],
                 <<"setitimer">>, FALSE)
    ELSE Outcome(Ok, [t EXCEPT !.running = TRUE],
                 setitimer(t.type, timer_val, envok).now, <<"setitimer">>, TRUE)

\* start() that arms the clock and does not record that the timer runs
start_timer_unrecorded(t, timer_val, envok) ==
    IF timer_val.it_interval.tv_sec < 0
    THEN Outcome(NegativeInterval, t, clock[t.type], <<>>, FALSE)
    ELSE IF timer_val.it_value.tv_sec < 0
    THEN Outcome(NegativeValue, t, clock[t.type], <<>>, FALSE)
    ELSE IF timer_val.it_interval.tv_sec = 0 /\ timer_val.it_interval.tv_usec = 0
    THEN Outcome(DegenerateInterval, t, clock[t.type], <<>>, FALSE)
    ELSE IF setitimer(t.type, timer_val, envok).rc < 0
    THEN Outcome(ClockProgrammingFailed, t, clock[t.type], <<"setitimer">>, FALSE)
    ELSE Outcome(Ok, t, setitimer(t.type, timer_val, envok).now, <<"setitimer">>, TRUE)

\* ITimer::start(), from the checks of the scaled timer_val on
start_timer_val(t, timer_val, envok) ==
    IF timer_val.it_interval.tv_sec < 0
    THEN Outcome(NegativeInterval, t, clock[t.type], <<>>, FALSE)
    ELSE IF timer_val.it_value.tv_sec < 0
    THEN Outcome(NegativeValue, t, clock[t.type], <<>>, FALSE)
    ELSE IF timer_val.it_interval.tv_sec = 0 /\ timer_val.it_interval.tv_usec = 0
    THEN Outcome(DegenerateInterval, t, clock[t.type], <<>>, FALSE)
    ELSE IF setitimer(t.type, timer_val, envok).rc < 0
    THEN Outcome(ClockProgrammingFailed, t, clock[t.type], <<"setitimer">>, FALSE)
    ELSE Outcome(Ok, [t EXCEPT !.running = TRUE],
                 setitimer(t.type, timer_val, envok).now, <<"setitimer">>, TRUE)

\* start() without the test of running
start_again(t, envok) ==
    start_timer_val(t, [it_interval |-> TimevalDiv(t.timer_interval, t.speed_factor),
                        it_value    |-> TimevalDiv(t.timer_value, t.speed_factor)],
                    envok)

\* start() that counts down the interval first, not the value
start_interval(t, envok) ==
    IF t.running THEN Outcome(AlreadyStarted, t, clock[t.type], <<>>, FALSE)
    ELSE start_timer_val(t, [it_interval |-> TimevalDiv(t.timer_interval, t.speed_factor),
                             it_value    |-> TimevalDiv(t.timer_interval, t.speed_factor)],
                         envok)

\* ITimer::start()
start(t, envok) ==
    IF t.running THEN Outcome(AlreadyStarted, t, clock[t.type], <<>>, FALSE)
    ELSE start_timer_val(t, [it_interval |-> TimevalDiv(t.timer_interval, t.speed_factor),
                             it_value    |-> TimevalDiv(t.timer_value, t.speed_factor)],
                         envok)

\* stop() that stores the value of the clock as it was captured
stop_timer_raw(t, envok) ==
    IF setitimer(t.type, STOP_TIMER, envok).rc < 0
    THEN Outcome(ClockProgrammingFailed, t, clock[t.type], <<"setitimer">>, FALSE)
    ELSE Outcome(Ok,
                 [t EXCEPT !.timer_value = setitimer(t.type, STOP_TIMER, envok).old.it_value,
                           !.running = FALSE],
                 STOP_TIMER, <<"setitimer">>, TRUE)

\* stop() that reads the clock and leaves it armed
stop_timer_read(t, envok) ==
    IF setitimer(t.type, STOP_TIMER, envok).rc < 0
    THEN Outcome(ClockProgrammingFailed, t, clock[t.type], <<"setitimer">>, FALSE)
    ELSE Outcome(Ok,
                 [t EXCEPT !.timer_value =
                               TimevalMul(setitimer(t.type, STOP_TIMER, envok).old.it_value,
                                          t.speed_factor),
                           !.running = FALSE],
                 clock[t.type], <<"setitimer">>, TRUE)

\* stop() that takes the timer for stopped when the call has failed
stop_timer_anyway(t, envok) ==
    IF setitimer(t.type, STOP_TIMER, envok).rc < 0
    THEN Outcome(ClockProgrammingFailed, [t EXCEPT !.running = FALSE], clock[t.type],
                 <<"setitimer">>, FALSE)
    ELSE Outcome(Ok,
                 [t EXCEPT !.timer_value =
                               TimevalMul(setitimer(t.type, STOP_TIMER, envok).old.it_value,
                                          t.speed_factor),
                           !.running = FALSE],
                 STOP_TIMER, <<"setitimer">>, TRUE)

\* ITimer::stop(), from the setitimer call on
stop_timer(t, envok) ==
    IF setitimer(t.type, STOP_TIMER, envok).rc < 0
    THEN Outcome(ClockProgrammingFailed, t, clock[t.type], <<"setitimer">>, FALSE)
    ELSE Outcome(Ok,
                 [t EXCEPT !.timer_value =
                               TimevalMul(setitimer(t.type, STOP_TIMER, envok).old.it_value,
                                          t.speed_factor),
                           !.running = FALSE],
                 STOP_TIMER, <<"setitimer">>, TRUE)

\* stop() without the test of running
stop_again(t, envok) == stop_timer(t, envok)

\* ITimer::stop()
stop(t, envok) ==
    IF ~t.running THEN Outcome(AlreadyStopped, t, clock[t.type], <<>>, FALSE)
    ELSE stop_timer(t, envok)

\* adjust_speed() that saves the speed factor before it programs the clock
adjust_speed_val_early(t, new_factor, val, envok2) ==
    IF ~(envok2 /\ ValidTimeval(val.it_interval) /\ ValidTimeval(val.it_value))
    THEN Outcome(ClockProgrammingFailed, [t EXCEPT !.speed_factor = new_factor], STOP_TIMER,
                 <<"setitimer", "setitimer">>, TRUE)
    ELSE Outcome(Ok, [t EXCEPT !.speed_factor = new_factor], val,
                 <<"setitimer", "setitimer">>, TRUE)

\* ITimer::adjust_speed(double new_factor), from the second setitimer call
\* on: the clock was stopped by the first and is programmed with val
adjust_speed_val(t, new_factor, val, envok2) ==
    IF ~(envok2 /\ ValidTimeval(val.it_interval) /\ ValidTimeval(val.it_value))
    THEN Outcome(ClockProgrammingFailed, t, STOP_TIMER, <<"setitimer", "setitimer">>, TRUE)
    ELSE Outcome(Ok, [t EXCEPT !.speed_factor = new_factor], val,
                 <<"setitimer", "setitimer">>, TRUE)

\* adjust_speed() that scales the interval by the factor in use
adjust_speed_old(t, new_factor, envok, envok2) ==
    IF ~t.running THEN Outcome(NotRunning, t, clock[t.type], <<>>, FALSE)
    ELSE IF setitimer(t.type, STOP_TIMER, envok).rc # 0
    THEN Outcome(ClockProgrammingFailed, t, clock[t.type], <<"setitimer">>, FALSE)
    ELSE adjust_speed_val(t, new_factor,
                          [it_interval |-> TimevalDiv(t.timer_interval, t.speed_factor),
                           it_value    |-> TimevalMul(setitimer(t.type, STOP_TIMER, envok).old.it_value,
                                                      FDiv(t.speed_factor, new_factor))],
                          envok2)

\* adjust_speed() that scales the stored value of the timer, not what is
\* left on the clock
adjust_speed_stored(t, new_factor, envok, envok2) ==
    IF ~t.running THEN Outcome(NotRunning, t, clock[t.type], <<>>, FALSE)
    ELSE IF setitimer(t.type, STOP_TIMER, envok).rc # 0
    THEN Outcome(ClockProgrammingFailed, t, clock[t.type], <<"setitimer">>, FALSE)
    ELSE adjust_speed_val(t, new_factor,
                          [it_interval |-> TimevalDiv(t.timer_interval, new_factor),
                           it_value    |-> TimevalDiv(t.timer_value, new_factor)],
                          envok2)

\* ITimer::adjust_speed(double new_factor); envok2 is the outcome the
\* environment gives the second setitimer call
adjust_speed(t, new_factor, envok, envok2) ==
    IF ~t.running THEN Outcome(NotRunning, t, clock[t.type], <<>>, FALSE)
    ELSE IF setitimer(t.type, STOP_TIMER, envok).rc # 0
    THEN Outcome(ClockProgrammingFailed, t, clock[t.type], <<"setitimer">>, FALSE)
    ELSE adjust_speed_val(t, new_factor,
                          [it_interval |-> TimevalDiv(t.timer_interval, new_factor),
                           it_value    |-> TimevalMul(setitimer(t.type, STOP_TIMER, envok).old.it_value,
                                                      FDiv(t.speed_factor, new_factor))],
                          envok2)

\* set_speed_factor() that has no effect on a stopped timer
set_speed_factor_running(t, factor, envok, envok2) ==
    IF FLeqZero(factor) THEN Outcome(InvalidSpeedFactor, t, clock[t.type], <<>>, FALSE)
    ELSE IF FIsNaN(factor) \/ FIsInf(factor)
    THEN Outcome(InvalidSpeedFactor, t, clock[t.type], <<>>, FALSE)
    ELSE IF t.running THEN adjust_speed(t, factor, envok, envok2)
    ELSE Outcome(Ok, t, clock[t.type], <<>>, FALSE)

\* set_speed_factor() that tests the sign of the factor only
set_speed_factor_sign(t, factor, envok, envok2) ==
    IF FLeqZero(factor) THEN Outcome(InvalidSpeedFactor, t, clock[t.type], <<>>, FALSE)
    ELSE IF t.running THEN adjust_speed(t, factor, envok, envok2)
    ELSE Outcome(Ok, [t EXCEPT !.speed_factor = factor], clock[t.type], <<>>, FALSE)

\* ITimer::set_speed_factor(double factor)
set_speed_factor(t, factor, envok, envok2) ==
    IF FLeqZero(factor) THEN Outcome(InvalidSpeedFactor, t, clock[t.type], <<>>, FALSE)
    ELSE IF FIsNaN(factor) \/ FIsInf(factor)
    THEN Outcome(InvalidSpeedFactor, t, clock[t.type], <<>>, FALSE)
    ELSE IF t.running THEN adjust_speed(t, factor, envok, envok2)
    ELSE Outcome(Ok, [t EXCEPT !.speed_factor = factor], clock[t.type], <<>>, FALSE)

\* ITimer::set_speed_to_normal()
set_speed_to_normal(t, envok, envok2) ==
    IF t.running THEN adjust_speed(t, F1, envok, envok2)
    ELSE Outcome(Ok, [t EXCEPT !.speed_factor = F1], clock[t.type], <<>>, FALSE)

\* set_interval_value() without the test of running
set_interval_value_always(t, interval, value) ==
    Outcome(Ok, [t EXCEPT !.timer_interval = interval, !.timer_value = value],
            clock[t.type], <<>>, FALSE)

\* ITimer::set_interval_value(const timeval &interval, const timeval &value)
set_interval_value(t, interval, value) ==
    IF t.running THEN Outcome(TimerRunning, t, clock[t.type], <<>>, FALSE)
    ELSE Outcome(Ok, [t EXCEPT !.timer_interval = interval, !.timer_value = value],
                 clock[t.type], <<>>, FALSE)

\* from_fstream() that sets the speed back to normal
from_fstream_normal(t, stream) ==
    IF t.running THEN Outcome(TimerRunning, t, clock[t.type], <<>>, FALSE)
    ELSE LET val == IF stream = NoRecord THEN STOP_TIMER ELSE stream
         IN  Outcome(Ok, [t EXCEPT !.timer_interval = val.it_interval,
                                   !.timer_value = val.it_value,
                                   !.speed_factor = F1],
                     clock[t.type], <<>>, FALSE)

\* ITimer::from_fstream(std::ifstream &fstream); a failed read leaves the
\* zero-initialised itimerval
from_fstream(t, stream) ==
    IF t.running THEN Outcome(TimerRunning, t, clock[t.type], <<>>, FALSE)
    ELSE LET val == IF stream = NoRecord THEN STOP_TIMER ELSE stream
         IN  Outcome(Ok, [t EXCEPT !.timer_interval = val.it_interval,
                                   !.timer_value = val.it_value],
                     clock[t.type], <<>>, FALSE)

\* to_fstream() that writes what the clock of a running timer holds
to_fstream_live(t, envok) ==
    IF t.running
    THEN IF getitimer(t.type, envok).rc < 0 THEN NoRecord
         ELSE getitimer(t.type, envok).cur
    ELSE [it_interval |-> t.timer_interval, it_value |-> t.timer_value]

\* ITimer::to_fstream(std::ofstream &fstream) const: the record written, or
\* NoRecord when getitimer failed
to_fstream(t, envok) ==
    IF t.running
    THEN IF getitimer(t.type, envok).rc < 0 THEN NoRecord
         ELSE [it_interval |-> t.timer_interval,
               it_value    |-> TimevalMul(getitimer(t.type, envok).cur.it_value,
                                          t.speed_factor)]
    ELSE [it_interval |-> t.timer_interval, it_value |-> t.timer_value]

\* get_timer_value() that scales the stored value by the speed factor
get_timer_value_scaled(t, envok) ==
    IF t.running
    THEN IF getitimer(t.type, envok).rc < 0 THEN NoValue
         ELSE getitimer(t.type, envok).cur.it_value
    ELSE TimevalDiv(t.timer_value, t.speed_factor)

\* ITimer::get_timer_value() const: the value returned, or NoValue when
\* getitimer failed
get_timer_value(t, envok) ==
    IF t.running
    THEN IF getitimer(t.type, envok).rc < 0 THEN NoValue
         ELSE getitimer(t.type, envok).cur.it_value
    ELSE t.timer_value

(***************************************************************************)
(* Operations                                                              *)
(***************************************************************************)
Live(o) == timers[o] # NoTimer

\* what is remembered of an object once it has been started; given is then
\* the value it was started with
Started == [given |-> NoValue, started |-> TRUE, restored |-> FALSE]

\* the slot a new object gets
FreeSlot(o) == ~Live(o) /\ \A p \in Objects : p < o => Live(p)

\* the clock's history after a call with outcome res: it is followed from a
\* successful start() until the clock is programmed again
NoWatch == [elapsed |-> 0, expirations |-> 0, pristine |-> FALSE]

Watched(K, op, res) ==
    IF op = "start" /\ res.err = Ok
    THEN [watch EXCEPT ![K] = [elapsed |-> 0, expirations |-> 0, pristine |-> TRUE]]
    ELSE IF res.programmed THEN [watch EXCEPT ![K] = NoWatch]
    ELSE watch

\* calls in a state the operation is not made for
Misuse == {AlreadyExists, AlreadyStarted, AlreadyStopped, TimerRunning, InvalidSpeedFactor}

\* the program makes the calls it is written to make
Makes(err) == err \in Misuse => err \in cfg.misuse

\* the environment fails only a call that is made (the second call of an
\* operation only after the first succeeded), and only where faults are injected
Fails(calls, envok, envok2) ==
    /\ ~envok => (cfg.faults /\ Len(calls) >= 1 /\ envok2)
    /\ ~envok2 => (cfg.faults /\ Len(calls) = 2)

\* a call of a method on object o with outcome res
Method(op, o, arg, res, ret) ==
    /\ Makes(res.err)
    /\ timers' = [timers EXCEPT ![o] = res.t]
    /\ clock' = [clock EXCEPT ![timers[o].type] = res.clk]
    /\ watch' = Watched(timers[o].type, op, res)
    /\ last' = Called(op, o, arg, res.err, ret, res.calls)
    /\ UNCHANGED <<instance_exists, exited, cfg>>

\* a constructor that does not test the flag
InstanceNever(K) == FALSE

\* if (instance_exists) throw std::logic_error("instance exists")
InstanceExists(K) == instance_exists[K]

\* ITimer_Real / ITimer_Virtual / ITimer_Prof (const timeval &interval
\* [, const timeval &value]): the base object is built, then the flag is
\* tested; a throwing constructor destroys the stopped base object only
Construct(K, interval, value) ==
    /\ ~exited
    /\ \E o \in Objects :
        /\ FreeSlot(o)
        /\ IF InstanceExists(K)
           THEN /\ Makes(AlreadyExists)
                /\ last' = Called("construct", o, K, AlreadyExists, NoValue, <<>>)
                /\ UNCHANGED <<instance_exists, timers, hist, used>>
           ELSE /\ used.constructs < cfg.budget.constructs
                /\ used' = [used EXCEPT !.constructs = @ + 1]
                /\ instance_exists' = [instance_exists EXCEPT ![K] = TRUE]
                /\ timers' = [timers EXCEPT ![o] = ITimer(K, interval, value)]
                /\ hist' = [hist EXCEPT ![o] =
                              [given |-> value, started |-> FALSE, restored |-> FALSE]]
                /\ last' = Called("construct", o, K, Ok, NoValue, <<>>)
    /\ UNCHANGED <<clock, watch, file, exited, cfg>>

\* the constructors taking seconds as double
ConstructD(K, interval, value) ==
    Construct(K, double_to_timeval(interval), double_to_timeval(value))

\* the constructors taking the interval only: the value is the interval
ConstructInterval(K, interval) == Construct(K, interval, interval)

ConstructIntervalD(K, interval) ==
    Construct(K, double_to_timeval(interval), double_to_timeval(interval))

\* a destructor that leaves the flag set
Remember(K) == instance_exists

\* ~ITimer_Real / ~ITimer_Virtual / ~ITimer_Prof: instance_exists = false
Forget(K) == [instance_exists EXCEPT ![K] = FALSE]

\* a destructor that swallows the exception of stop()
ExitsNever(err) == FALSE

\* ~ITimer: catch (const std::exception &e) { ...; exit(EX_SOFTWARE); }
Exits(err) == err # Ok

\* the derived destructor, then ~ITimer: the flag is cleared, a running
\* timer is stopped, and exit() is called if that throws
Destroy(o, envok) ==
    /\ ~exited
    /\ Live(o)
    /\ \E t \in {timers[o]}, res \in {stop(timers[o], envok)} :
           /\ Fails(res.calls, envok, TRUE)
           /\ instance_exists' = Forget(t.type)
           /\ IF t.running
              THEN /\ clock' = [clock EXCEPT ![t.type] = res.clk]
                   /\ watch' = Watched(t.type, "stop", res)
                   /\ last' = Called("destroy", o, t.type, res.err, NoValue, res.calls)
                   /\ exited' = Exits(res.err)
                   /\ timers' = IF Exits(res.err) THEN timers
                                ELSE [timers EXCEPT ![o] = NoTimer]
              ELSE /\ last' = Called("destroy", o, t.type, Ok, NoValue, <<>>)
                   /\ timers' = [timers EXCEPT ![o] = NoTimer]
                   /\ UNCHANGED <<clock, watch, exited>>
           /\ hist' = IF exited' THEN hist ELSE [hist EXCEPT ![o] = NoValue]
    /\ UNCHANGED <<file, used, cfg>>

Start(o, envok) ==
    /\ ~exited
    /\ Live(o)
    /\ \E res \in {start(timers[o], envok)} :
           /\ Fails(res.calls, envok, TRUE)
           /\ res.err = Ok => used.starts < cfg.budget.starts
           /\ Method("start", o, NoValue, res, NoValue)
           /\ used' = IF res.err = Ok THEN [used EXCEPT !.starts = @ + 1] ELSE used
           /\ hist' = IF res.err = Ok
                      THEN [hist EXCEPT ![o] = [Started EXCEPT !.given = timers[o].timer_value]]
                      ELSE hist
    /\ UNCHANGED file

Stop(o, envok) ==
    /\ ~exited
    /\ Live(o)
    /\ \E res \in {stop(timers[o], envok)} :
           /\ Fails(res.calls, envok, TRUE)
           /\ Method("stop", o, NoValue, res, NoValue)
    /\ UNCHANGED <<file, used, hist>>

SetSpeedFactor(o, factor, envok, envok2) ==
    /\ ~exited
    /\ Live(o)
    /\ \E res \in {set_speed_factor(timers[o], factor, envok, envok2)} :
           /\ Fails(res.calls, envok, envok2)
           /\ res.programmed => used.adjusts < cfg.budget.adjusts
           /\ Method("set_speed_factor", o, factor, res, NoValue)
           /\ used' = IF res.programmed THEN [used EXCEPT !.adjusts = @ + 1] ELSE used
    /\ UNCHANGED <<file, hist>>

SetSpeedToNormal(o, envok, envok2) ==
    /\ ~exited
    /\ Live(o)
    /\ \E res \in {set_speed_to_normal(timers[o], envok, envok2)} :
           /\ Fails(res.calls, envok, envok2)
           /\ res.programmed => used.adjusts < cfg.budget.adjusts
           /\ Method("set_speed_to_normal", o, NoValue, res, NoValue)
           /\ used' = IF res.programmed THEN [used EXCEPT !.adjusts = @ + 1] ELSE used
    /\ UNCHANGED <<file, hist>>

SetIntervalValue(o, interval, value) ==
    /\ ~exited
    /\ Live(o)
    /\ \E res \in {set_interval_value(timers[o], interval, value)} :
           /\ Method("set_interval_value", o, NoValue, res, NoValue)
           /\ hist' = IF res.err = Ok /\ ~hist[o].started
                      THEN [hist EXCEPT ![o].given = value, ![o].restored = FALSE]
                      ELSE hist
    /\ UNCHANGED <<file, used>>

\* ITimer::set_interval_value(double interval, double value)
SetIntervalValueD(o, interval, value) ==
    SetIntervalValue(o, double_to_timeval(interval), double_to_timeval(value))

\* ITimer::set_interval(const timeval &interval)
SetInterval(o, interval) == SetIntervalValue(o, interval, interval)

\* ITimer::set_interval(double &interval)
SetIntervalD(o, interval) == SetIntervalValueD(o, interval, interval)

FromFstream(o) ==
    /\ ~exited
    /\ Live(o)
    /\ \E res \in {from_fstream(timers[o], file)} :
           /\ res.err = Ok => used.reads < cfg.budget.reads
           /\ Method("from_fstream", o, NoValue, res, NoValue)
           /\ used' = IF res.err = Ok THEN [used EXCEPT !.reads = @ + 1] ELSE used
           /\ hist' = IF res.err = Ok /\ ~hist[o].started
                      THEN [hist EXCEPT ![o].restored = TRUE] ELSE hist
    /\ UNCHANGED file

ToFstream(o, envok) ==
    /\ ~exited
    /\ Live(o)
    /\ \E t \in {timers[o]}, val \in {to_fstream(timers[o], envok)} :
           /\ Fails(IF t.running THEN <<"getitimer">> ELSE <<>>, envok, TRUE)
           /\ val # NoRecord => used.writes < cfg.budget.writes
           /\ file' = IF val = NoRecord THEN file ELSE val
           /\ used' = IF val = NoRecord THEN used ELSE [used EXCEPT !.writes = @ + 1]
           /\ last' = Called("to_fstream", o, NoValue,
                             IF val = NoRecord THEN ClockReadFailed ELSE Ok, NoValue,
                             IF t.running THEN <<"getitimer">> ELSE <<>>)
    /\ UNCHANGED <<instance_exists, timers, clock, watch, exited, hist, cfg>>

GetTimerValue(o, envok) ==
    /\ ~exited
    /\ Live(o)
    /\ cfg.observes
    /\ \E t \in {timers[o]}, ret \in {get_timer_value(timers[o], envok)} :
           /\ Fails(IF t.running THEN <<"getitimer">> ELSE <<>>, envok, TRUE)
           /\ last' = Called("get_timer_value", o, NoValue,
                             IF ret = NoValue THEN ClockReadFailed ELSE Ok, ret,
                             IF t.running THEN <<"getitimer">> ELSE <<>>)
    /\ UNCHANGED <<instance_exists, timers, clock, watch, file, used, exited, hist, cfg>>

(***************************************************************************)
(* The clocks count down; at an expiration the signal of the kind is       *)
(* generated and the value is reloaded from the interval                   *)
(***************************************************************************)
\* the clock of kind K counts down d microseconds without expiring
Countdown(K, d) ==
    /\ ~exited
    /\ Armed(K)
    /\ used.ticks < cfg.budget.ticks
    /\ d < Usec(clock[K].it_value)
    /\ clock' = [clock EXCEPT ![K].it_value = FromUsec(Usec(@) - d)]
    /\ watch' = IF watch[K].pristine THEN [watch EXCEPT ![K].elapsed = @ + d] ELSE watch
    /\ used' = [used EXCEPT !.ticks = @ + 1]
    /\ UNCHANGED <<instance_exists, timers, file, exited, hist, cfg>>

\* the clock of kind K counts down to zero, expires and is reloaded
Reload(K) ==
    /\ ~exited
    /\ Armed(K)
    /\ used.ticks < cfg.budget.ticks
    /\ clock' = [clock EXCEPT ![K].it_value = clock[K].it_interval]
    /\ watch' = IF watch[K].pristine
                THEN [watch EXCEPT ![K].elapsed = @ + Usec(clock[K].it_value),
                                   ![K].expirations = @ + 1]
                ELSE watch
    /\ used' = [used EXCEPT !.ticks = @ + 1]
    /\ UNCHANGED <<instance_exists, timers, file, exited, hist, cfg>>

Elapse(K, d) ==
    /\ Countdown(K, d)
    /\ last' = Called("elapse", 0, NoValue, Ok, NoValue, <<>>)

Expire(K) ==
    /\ Reload(K)
    /\ last' = Called("expire", 0, NoValue, Ok, NoValue, <<>>)

(***************************************************************************)
(* The operators on timeval, called by the program itself                  *)
(***************************************************************************)
Times == "operator*"
Over == "operator/"

\* timeval operator*(const timeval &left, double right),
\* timeval operator/(const timeval &left, double right)
ScaleBy(op, left, right) ==
    IF op = Times THEN TimevalMul(left, right) ELSE TimevalDiv(left, right)

\* a scaling: its operator and operands, and the scaling whose result the
\* left operand is (NoValue for a timeval of the program)
Scaling(op, left, right, of) == [op |-> op, left |-> left, right |-> right, of |-> of]

\* the last call was a scaling and left is its result
Chained(left) == last.op \in {Times, Over} /\ left = last.ret

Scale(op, left, right) ==
    /\ ~exited
    /\ used.scalings < MaxScalings
    /\ left \in cfg.durations \/ Chained(left)
    /\ last' = Called(op, 0,
                      Scaling(op, left, right, IF Chained(left) THEN last.arg ELSE NoValue),
                      Ok, ScaleBy(op, left, right), <<>>)
    /\ used' = [used EXCEPT !.scalings = @ + 1]
    /\ UNCHANGED <<instance_exists, timers, clock, watch, file, exited, hist, cfg>>

Multiply(left, right) == Scale(Times, left, right)

Divide(left, right) == Scale(Over, left, right)

(***************************************************************************)
(* Inputs.  A behaviour is one use of the library: the program it models   *)
(* (cfg, fixed by Init) names the kinds it constructs, the intervals,      *)
(* values and speed factors it passes, and how far it goes.                *)
(***************************************************************************)
F2 == FLit(2, 0)
F075 == FLit(3, 2)
FHuge == FLit(1048575, 0)
FNegOne == [F1 EXCEPT !.neg = TRUE]

\* 1.2 as the compiler reads the literal: the double nearest to 12/10
D1_2 == FDiv(FFromInt(12), FFromInt(10))

\* README, "const double interval = 2.5"
D2_5 == FLit(5, 1)

F3 == FLit(3, 0)
F10 == FLit(10, 0)

InvalidFactors == {FZero, FNegOne, FNaN, FInf(FALSE), FInf(TRUE)}

Budget(constructs, starts, adjusts, ticks, writes, reads) ==
    [constructs |-> constructs, starts |-> starts, adjusts |-> adjusts,
     ticks |-> ticks, writes |-> writes, reads |-> reads]

\* a program that does nothing; pairs are <<interval, value>>
NoProgram ==
    [kinds |-> {}, pairs |-> {}, intervals |-> {}, dpairs |-> {}, dintervals |-> {},
     setpairs |-> {}, dsetpairs |-> {}, setintervals |-> {}, dsetintervals |-> {},
     factors |-> {}, steps |-> {}, durations |-> {}, budget |-> Budget(0, 0, 0, 0, 0, 0),
     misuse |-> {}, faults |-> FALSE, observes |-> FALSE]

\* test/test.cpp: ITimer_Real timer(2.0, 1.0), started and left to expire
ProgramTest ==
    [NoProgram EXCEPT !.kinds = {ITIMER_REAL}, !.dpairs = {<<F2, F1>>},
                      !.steps = {500000},
                      !.budget = Budget(1, 1, 0, TestTicks, 0, 0)]

\* timers of every kind, constructed and destroyed, stopped or running
ProgramKinds ==
    [NoProgram EXCEPT !.kinds = Kinds, !.intervals = {TV(1, 0)},
                      !.budget = Budget(MaxConstructs, 1, 0, 0, 0, 0),
                      !.misuse = {AlreadyExists}]

\* a timer of one kind constructed again after its destruction
ProgramAgain ==
    [NoProgram EXCEPT !.kinds = {ITIMER_VIRTUAL}, !.dintervals = {D1_2},
                      !.budget = Budget(MaxAgain, 1, 0, 0, 0, 0)]

\* calls made in the wrong state and with invalid arguments
ProgramMisuse ==
    [NoProgram EXCEPT !.kinds = {ITIMER_REAL}, !.pairs = {<<TV(2, 0), TV(1, 0)>>},
                      !.setpairs = {<<TV(2, 0), TV(1, 0)>>},
                      !.setintervals = {TV(2, 0)},
                      !.dsetpairs = {<<F2, F1>>},
                      !.factors = {F2} \cup InvalidFactors, !.steps = {500000},
                      !.budget = Budget(1, 1, 1, 1, 1, 0),
                      !.misuse = Misuse]

\* a timer that is configured and read but never started
ProgramSet ==
    [NoProgram EXCEPT !.kinds = {ITIMER_PROF},
                      !.pairs = {<<TV(2, 0), TV(1, 0)>>}, !.intervals = {TV(1, 200000)},
                      !.dpairs = {<<F2, D1_2>>}, !.dintervals = {D1_2},
                      !.setpairs = {<<TV(1, 0), TV(2, 500000)>>},
                      !.setintervals = {TV(3, 0)},
                      !.dsetpairs = {<<D1_2, F2>>},
                      !.dsetintervals = {D2_5},
                      !.factors = {F2, F075},
                      !.budget = Budget(1, 0, 0, 0, 0, 0),
                      !.observes = TRUE]

\* README, "Manipulate Timer Speed": the speed of a running timer is changed
ProgramSpeed ==
    [NoProgram EXCEPT !.kinds = {ITIMER_REAL},
                      !.pairs = {<<TV(1, 200000), TV(2, 300000)>>},
                      !.factors = {F2, F075}, !.steps = {500000},
                      !.budget = Budget(1, 1, MaxAdjusts, MaxTicks, 0, 0),
                      !.observes = TRUE]

\* an interval and value the conversion to double and back does not keep
ProgramLossy ==
    [NoProgram EXCEPT !.kinds = {ITIMER_REAL},
                      !.intervals = {TV(1, 200000)}, !.steps = {1},
                      !.budget = Budget(1, 1, 0, LossyTicks, 0, 0)]

\* a timer started with nothing left to count down
ProgramZero ==
    [NoProgram EXCEPT !.kinds = {ITIMER_REAL},
                      !.pairs = {<<TV(1, 0), ZeroTV>>}, !.steps = {500000},
                      !.budget = Budget(1, 1, 0, 1, 0, 0),
                      !.observes = TRUE]

\* system calls that fail and a speed factor no interval survives
ProgramFaults ==
    [NoProgram EXCEPT !.kinds = {ITIMER_VIRTUAL},
                      !.intervals = {TV(1, 0)}, !.factors = {F2, FHuge},
                      !.budget = Budget(1, 1, 1, 0, 1, 1),
                      !.faults = TRUE, !.observes = TRUE]

\* a timer is written to a file and read back, before and after it ran
ProgramSnapshot ==
    [NoProgram EXCEPT !.kinds = {ITIMER_PROF},
                      !.pairs = {<<TV(2, 0), TV(1, 0)>>},
                      !.setpairs = {<<TV(1, 0), TV(2, 500000)>>},
                      !.factors = {F2}, !.steps = {500000},
                      !.budget = Budget(1, MaxStarts, 0, 1, 1, 1)]

\* timers constructed with an interval of zero or with negative seconds
ProgramMalformed ==
    [NoProgram EXCEPT !.kinds = {ITIMER_REAL},
                      !.pairs = {<<ZeroTV, TV(1, 0)>>, <<ZeroTV, TV(0 - 1, 0)>>,
                                 <<TV(0 - 1, 0), TV(1, 0)>>, <<TV(1, 0), TV(0 - 1, 0)>>,
                                 <<TV(1, 0), TV(0, 0 - 500000)>>},
                      !.factors = {F2},
                      !.budget = Budget(1, 1, 0, 0, 0, 0),
                      !.faults = TRUE]

\* a running timer is given a speed factor no interval survives
ProgramCollapse ==
    [NoProgram EXCEPT !.kinds = {ITIMER_REAL},
                      !.pairs = {<<TV(1, 0), TV(2, 0)>>},
                      !.factors = {FHuge}, !.steps = {1},
                      !.budget = Budget(1, 1, 1, 1, 0, 0),
                      !.observes = TRUE]

\* timevals scaled with the operators, a result scaled again
ProgramScale ==
    [NoProgram EXCEPT !.durations = {TV(1, 0), TV(1, 200000), TV(0, 7)},
                      !.factors = {F075, F2, F3, F10}]

Programs == {ProgramTest, ProgramKinds, ProgramAgain, ProgramMisuse, ProgramSet,
             ProgramSpeed, ProgramLossy, ProgramZero, ProgramFaults, ProgramSnapshot,
             ProgramScale, ProgramMalformed, ProgramCollapse}

Next ==
    \/ \E K \in cfg.kinds, p \in cfg.pairs : Construct(K, p[1], p[2])
    \/ \E K \in cfg.kinds, p \in cfg.dpairs : ConstructD(K, p[1], p[2])
    \/ \E K \in cfg.kinds, i \in cfg.intervals : ConstructInterval(K, i)
    \/ \E K \in cfg.kinds, i \in cfg.dintervals : ConstructIntervalD(K, i)
    \/ \E o \in Objects, envok \in BOOLEAN : Destroy(o, envok)
    \/ \E o \in Objects, envok \in BOOLEAN : Start(o, envok)
    \/ \E o \in Objects, envok \in BOOLEAN : Stop(o, envok)
    \/ \E o \in Objects, f \in cfg.factors, envok, envok2 \in BOOLEAN :
          SetSpeedFactor(o, f, envok, envok2)
    \/ \E o \in Objects, envok, envok2 \in BOOLEAN : SetSpeedToNormal(o, envok, envok2)
    \/ \E o \in Objects, p \in cfg.setpairs : SetIntervalValue(o, p[1], p[2])
    \/ \E o \in Objects, p \in cfg.dsetpairs : SetIntervalValueD(o, p[1], p[2])
    \/ \E o \in Objects, i \in cfg.setintervals : SetInterval(o, i)
    \/ \E o \in Objects, i \in cfg.dsetintervals : SetIntervalD(o, i)
    \/ \E o \in Objects : FromFstream(o)
    \/ \E o \in Objects, envok \in BOOLEAN : ToFstream(o, envok)
    \/ \E o \in Objects, envok \in BOOLEAN : GetTimerValue(o, envok)
    \/ \E K \in Kinds, d \in cfg.steps : Elapse(K, d)
    \/ \E K \in Kinds : Expire(K)
    \/ \E left \in cfg.durations \cup {last.ret}, right \in cfg.factors :
          Multiply(left, right)
    \/ \E left \in cfg.durations \cup {last.ret}, right \in cfg.factors :
          Divide(left, right)

Init == cfg \in Programs /\ Start0

Spec == Init /\ [][Next]_vars

(***************************************************************************)
(* stop() and adjust_speed() system call by system call: the clocks count  *)
(* down between the setitimer call that captures and disables the clock    *)
(* and the statements that follow it.  A call that has made its first      *)
(* system call and not returned is the last call, with outcome InProgress  *)
(* and the captured itimerval as ret.                                      *)
(***************************************************************************)
InProgress == "in progress"

Pending == last.err = InProgress

\* a capture that reads the clock and leaves it armed
CaptureRead(K, envok) ==
    IF envok THEN [rc |-> 0, old |-> clock[K], now |-> clock[K]]
    ELSE [rc |-> 0 - 1, old |-> STOP_TIMER, now |-> clock[K]]

\* setitimer(type, &STOP_TIMER, &val): one system call
Capture(K, envok) == setitimer(K, STOP_TIMER, envok)

\* the first system call of op on the running object o
FirstCall(op, o, arg, envok) ==
    /\ ~exited
    /\ ~Pending
    /\ Live(o)
    /\ timers[o].running
    /\ Fails(<<"setitimer">>, envok, TRUE)
    /\ \E cap \in {Capture(timers[o].type, envok)} :
           /\ clock' = [clock EXCEPT ![timers[o].type] = cap.now]
           /\ watch' = IF cap.rc = 0 THEN [watch EXCEPT ![timers[o].type] = NoWatch]
                       ELSE watch
           /\ last' = Called(op, o, arg,
                             IF cap.rc = 0 THEN InProgress ELSE ClockProgrammingFailed,
                             IF cap.rc = 0 THEN cap.old ELSE NoValue, <<"setitimer">>)
    /\ UNCHANGED <<instance_exists, timers, file, used, exited, hist, cfg>>

\* ITimer::stop(), lines 113-118
StopCall(o, envok) == FirstCall("stop", o, NoValue, envok)

\* ITimer::stop(), lines 121-123
StopReturn(o) ==
    /\ Pending
    /\ last.op = "stop"
    /\ last.obj = o
    /\ timers' = [timers EXCEPT ![o].timer_value =
                                    TimevalMul(last.ret.it_value, timers[o].speed_factor),
                                ![o].running = FALSE]
    /\ last' = Called("stop", o, NoValue, Ok, NoValue, <<"setitimer">>)
    /\ UNCHANGED <<instance_exists, clock, watch, file, used, exited, hist, cfg>>

\* ITimer::set_speed_factor() of a running timer and ITimer::adjust_speed(),
\* lines 72-76
AdjustCall(o, factor, envok) ==
    /\ ~(FLeqZero(factor) \/ FIsNaN(factor) \/ FIsInf(factor))
    /\ used.adjusts < cfg.budget.adjusts
    /\ FirstCall("set_speed_factor", o, factor, envok)

\* ITimer::adjust_speed(), lines 79-89
AdjustReturn(o, envok2) ==
    /\ Pending
    /\ last.op = "set_speed_factor"
    /\ last.obj = o
    /\ Fails(<<"setitimer", "setitimer">>, TRUE, envok2)
    /\ \E res \in {adjust_speed_val(timers[o], last.arg,
                                      [it_interval |-> TimevalDiv(timers[o].timer_interval,
                                                                  last.arg),
                                       it_value    |-> TimevalMul(last.ret.it_value,
                                                                  FDiv(timers[o].speed_factor,
                                                                       last.arg))],
                                      envok2)} :
           /\ timers' = [timers EXCEPT ![o] = res.t]
           /\ clock' = [clock EXCEPT ![timers[o].type] = res.clk]
           /\ last' = Called("set_speed_factor", o, last.arg, res.err, NoValue, res.calls)
    /\ used' = [used EXCEPT !.adjusts = @ + 1]
    /\ UNCHANGED <<instance_exists, watch, file, exited, hist, cfg>>

\* the clocks count down while a call is in progress
ElapseDuring(K, d) == Pending /\ Countdown(K, d) /\ UNCHANGED last

ExpireDuring(K) == Pending /\ Reload(K) /\ UNCHANGED last

\* two timers of two kinds, both running; one is stopped or changes speed
ProgramSteps ==
    [NoProgram EXCEPT !.kinds = {ITIMER_REAL, ITIMER_VIRTUAL},
                      !.intervals = {TV(1, 200000)},
                      !.factors = {F2}, !.steps = {500000},
                      !.budget = Budget(2, 2, 1, StepTicks, 0, 0),
                      !.faults = TRUE]

NextSteps ==
    \/ ~Pending /\ \E K \in cfg.kinds, i \in cfg.intervals : ConstructInterval(K, i)
    \/ ~Pending /\ \E o \in Objects : Start(o, TRUE)
    \/ ~Pending /\ \E K \in Kinds, d \in cfg.steps : Elapse(K, d)
    \/ ~Pending /\ \E K \in Kinds : Expire(K)
    \/ \E o \in Objects, envok \in BOOLEAN : StopCall(o, envok)
    \/ \E o \in Objects : StopReturn(o)
    \/ \E o \in Objects, f \in cfg.factors, envok \in BOOLEAN : AdjustCall(o, f, envok)
    \/ \E o \in Objects, envok2 \in BOOLEAN : AdjustReturn(o, envok2)
    \/ \E K \in Kinds, d \in cfg.steps : ElapseDuring(K, d)
    \/ \E K \in Kinds : ExpireDuring(K)

InitSteps == cfg = ProgramSteps /\ Start0

SpecSteps == InitSteps /\ [][NextSteps]_vars

(***************************************************************************)
(* Properties                                                              *)
(***************************************************************************)
\* the live objects of kind K
LiveOf(K) == {o \in Objects : Live(o) /\ timers[o].type = K}

\* the object of the last call and its clock
Callee == timers[last.obj]
CalleeClock == clock[timers[last.obj].type]

\* the last call was op on a live object
On(op) == last.op = op /\ last.obj \in Objects /\ Live(last.obj)

C1_AtMostOne ==
    \A K \in Kinds :
        /\ Cardinality(LiveOf(K)) <= 1
        /\ ~exited => (instance_exists[K] <=> LiveOf(K) # {})

C1_Construction ==
    last'.op = "construct" =>
        /\ last'.err \in {Ok, AlreadyExists}
        /\ last'.err = AlreadyExists <=> LiveOf(last'.arg) # {}
        /\ last'.err = AlreadyExists =>
               /\ instance_exists[last'.arg]
               /\ instance_exists' = instance_exists
               /\ timers' = timers
               /\ clock' = clock
        /\ last'.err = Ok =>
               /\ timers'[last'.obj].type = last'.arg
               /\ \A o \in Objects \ {last'.obj} : timers'[o] = timers[o]

\* C1: a construction of kind K fails with AlreadyExists exactly when an
\* object of kind K is live, whatever objects of the other kinds are live;
\* so every kind has at most one live object, whose flag is set; a failed
\* construction changes neither the flags nor the objects nor the clocks
C1_Singleton == []C1_AtMostOne /\ [][C1_Construction]_vars

\* a construction is refused while objects of all three kinds are live
C1_Witness ==
    /\ last.op = "construct"
    /\ last.err = AlreadyExists
    /\ \A K \in Kinds : Cardinality(LiveOf(K)) = 1

C2_Destruction ==
    last'.op = "destroy" =>
        /\ Live(last'.obj)
        /\ timers[last'.obj].type = last'.arg
        /\ instance_exists' = [instance_exists EXCEPT ![last'.arg] = FALSE]
        /\ ~exited' => \A o \in Objects : timers'[o] # NoTimer => timers'[o].type # last'.arg

C2_Reconstruction ==
    (last.op = "destroy" /\ last'.op = "construct" /\ last'.arg = last.arg) =>
        last'.err = Ok

\* C2: the destruction of a live object of kind K, running or stopped,
\* clears the flag of K and no other flag, and a construction of kind K
\* that follows it succeeds
C2_FlagCleared == [][C2_Destruction]_vars /\ [][C2_Reconstruction]_vars

\* a second object of the one kind of the program has been constructed, so
\* the first was destroyed before; the first had been started
C2_Witness ==
    /\ cfg.kinds = {ITIMER_VIRTUAL}
    /\ last.op = "construct"
    /\ last.err = Ok
    /\ used.constructs = 2
    /\ used.starts = 1

C3_Start ==
    (last'.op = "start" /\ timers[last'.obj].running) =>
        /\ last'.err = AlreadyStarted
        /\ last'.calls = <<>>
        /\ timers' = timers
        /\ clock' = clock

\* C3: start() on a running timer fails with AlreadyStarted; the object
\* (running, interval, value, speed factor) and the clock stay as they are
\* and no system call is made
C3_AlreadyStarted == [][C3_Start]_vars

\* start() has been refused on a timer that is counting down
C3_Witness ==
    /\ On("start")
    /\ last.err = AlreadyStarted
    /\ Callee.running
    /\ CalleeClock.it_value # ZeroTV

C4_Stop ==
    (last'.op = "stop" /\ ~timers[last'.obj].running) =>
        /\ last'.err = AlreadyStopped
        /\ last'.calls = <<>>
        /\ timers' = timers
        /\ clock' = clock

C5_Mutation ==
    (last'.op \in {"set_interval_value", "from_fstream"} /\ timers[last'.obj].running) =>
        /\ last'.err = TimerRunning
        /\ last'.calls = <<>>
        /\ timers' = timers
        /\ clock' = clock

\* C5: set_interval_value(), set_interval() and from_fstream() on a running
\* timer fail with TimerRunning; the object and the programming of the
\* clock stay as they are
C5_TimerRunning == [][C5_Mutation]_vars

\* a snapshot that was written has been refused by a running timer
C5_Witness ==
    /\ On("from_fstream")
    /\ last.err = TimerRunning
    /\ Callee.running
    /\ file # NoRecord

\* zero, negative, NaN or infinite
InvalidFactor(f) == f.cls # "fin" \/ FIsZero(f) \/ f.neg

C6_Positive ==
    \A o \in Objects : Live(o) => ~InvalidFactor(timers[o].speed_factor)

C6_Rejection ==
    last'.op = "set_speed_factor" =>
        /\ last'.err = InvalidSpeedFactor <=> InvalidFactor(last'.arg)
        /\ InvalidFactor(last'.arg) =>
               /\ last'.calls = <<>>
               /\ timers' = timers
               /\ clock' = clock

\* C6: set_speed_factor(f) fails with InvalidSpeedFactor exactly for f zero,
\* negative, NaN or infinite, on a stopped and on a running timer, without a
\* system call and with the object and the clock unchanged; the speed factor
\* of every object is finite and positive in every state
C6_InvalidSpeedFactor == []C6_Positive /\ [][C6_Rejection]_vars

\* NaN has been refused by a running timer whose speed factor is not 1.0
C6_Witness ==
    /\ On("set_speed_factor")
    /\ last.err = InvalidSpeedFactor
    /\ FIsNaN(last.arg)
    /\ Callee.running
    /\ Callee.speed_factor # F1

\* C7: get_timer_value() of a timer that was never started (and not loaded
\* from a snapshot) returns the value the constructor was given (the
\* interval, for the constructors without a value) or the value of the last
\* set_interval_value(), whatever speed factor was set in between
C7_StoredValue ==
    (On("get_timer_value") /\ ~hist[last.obj].started /\ ~hist[last.obj].restored) =>
        /\ last.err = Ok
        /\ last.ret = hist[last.obj].given

\* a value above the interval is returned at a speed factor that is not 1.0
C7_Witness ==
    /\ On("get_timer_value")
    /\ ~hist[last.obj].started
    /\ last.ret = TV(2, 500000)
    /\ Callee.timer_interval = TV(1, 0)
    /\ Callee.speed_factor # F1

\* C8: get_timer_value() of a running timer returns the remaining value of
\* the clock multiplied by the speed factor
C8_Unscaled ==
    (On("get_timer_value") /\ Callee.running /\ last.err = Ok) =>
        last.ret = TimevalMul(CalleeClock.it_value, Callee.speed_factor)

\* expirations within T of a countdown of v, then of i again and again; a
\* clock programmed with the value zero is disarmed
Expirations(v, i, T) ==
    IF v = 0 \/ T < v THEN 0 ELSE (T - v) \div i + 1

\* the clock of object o counts down what start() gave it at speed 1.0
Undisturbed(o) ==
    /\ Live(o)
    /\ timers[o].running
    /\ timers[o].speed_factor = F1
    /\ watch[timers[o].type].pristine

\* C9: since start() at speed factor 1.0 of a timer of interval I and value
\* V, the clock has expired first after V / 1.0 and then every I / 1.0, as
\* operator/ computes them, and never if V / 1.0 is zero
C9_Expirations ==
    \A o \in Objects :
        Undisturbed(o) =>
            watch[timers[o].type].expirations =
                Expirations(Usec(TimevalDiv(timers[o].timer_value, F1)),
                            Usec(TimevalDiv(timers[o].timer_interval, F1)),
                            watch[timers[o].type].elapsed)

\* test.cpp: interval 2 s, value 1 s, five expirations within 10 s
C9_Witness ==
    \E o \in Objects :
        /\ Undisturbed(o)
        /\ timers[o].timer_interval = TV(2, 0)
        /\ timers[o].timer_value = TV(1, 0)
        /\ watch[timers[o].type].elapsed = 10000000
        /\ watch[timers[o].type].expirations = 5

\* C9 as stated: at a time T that is no expiry instant, the clock has
\* expired 0 times if T < V and floor((T - V) / I) + 1 times otherwise
C9_AsStated ==
    \A o \in Objects :
        (/\ Undisturbed(o)
         /\ last.op = "elapse"
         /\ \/ watch[timers[o].type].elapsed < Usec(timers[o].timer_value)
            \/ (watch[timers[o].type].elapsed - Usec(timers[o].timer_value))
                   % Usec(timers[o].timer_interval) # 0)
        => watch[timers[o].type].expirations =
               IF watch[timers[o].type].elapsed < Usec(timers[o].timer_value) THEN 0
               ELSE (watch[timers[o].type].elapsed - Usec(timers[o].timer_value))
                        \div Usec(timers[o].timer_interval) + 1

\* a change of speed of a running timer has succeeded
SpeedChanged ==
    /\ On("set_speed_factor") \/ On("set_speed_to_normal")
    /\ last.err = Ok
    /\ Callee.running

\* C10: after a successful set_speed_factor(f) or set_speed_to_normal()
\* (f = 1.0) on a running timer, whatever factors were set before, the
\* speed factor is f and the interval the clock reloads is the interval of
\* the timer divided by f, as operator/ computes it
C10_LiveInterval ==
    SpeedChanged =>
        /\ Callee.speed_factor = IF last.op = "set_speed_factor" THEN last.arg ELSE F1
        /\ CalleeClock.it_interval = TimevalDiv(Callee.timer_interval, Callee.speed_factor)

\* back at speed 1.0 after two other changes of speed, the clock reloads an
\* interval that is not the interval of the timer
C10_Witness ==
    /\ SpeedChanged
    /\ last.op = "set_speed_to_normal"
    /\ used.adjusts = 3
    /\ CalleeClock.it_interval # Callee.timer_interval

\* C10 as stated: back at speed factor 1.0 the clock reloads exactly the
\* interval of the timer
C10_AsStated ==
    (SpeedChanged /\ Callee.speed_factor = F1) =>
        CalleeClock.it_interval = Callee.timer_interval

\* stop() has succeeded on a timer whose clock counted down what start()
\* gave it
StartStop ==
    /\ last'.op = "stop"
    /\ last'.err = Ok
    /\ watch[timers[last'.obj].type].pristine

C11_Bounded ==
    StartStop =>
        /\ ValidTimeval(timers'[last'.obj].timer_value)
        /\ Usec(timers'[last'.obj].timer_value) <=
               Max(Usec(hist[last'.obj].given), Usec(timers[last'.obj].timer_interval))

\* C11: start() followed by stop() with no change of speed in between,
\* whatever speed factor was set before start(), leaves a value that is
\* not negative and not above the larger of the interval and the value the
\* timer was started with
C11_StartStopValue == [][C11_Bounded]_vars

\* a timer started with a value above its interval at a speed factor that
\* is not 1.0 has been stopped before the first expiration: its value is
\* above its interval
C11_Witness ==
    /\ On("stop")
    /\ last.err = Ok
    /\ Callee.speed_factor # F1
    /\ used.adjusts = 0
    /\ used.ticks = 0
    /\ Usec(Callee.timer_value) > Usec(Callee.timer_interval)
    /\ Usec(Callee.timer_value) <= Usec(hist[last.obj].given)

C11_Stated ==
    StartStop =>
        /\ ValidTimeval(timers'[last'.obj].timer_value)
        /\ Usec(timers'[last'.obj].timer_value) <= Usec(timers[last'.obj].timer_interval)

\* C11 as stated: the value left by start() followed by stop() is not
\* above the interval
C11_AsStated == [][C11_Stated]_vars

C12_Write ==
    (last'.op = "to_fstream" /\ last'.err = Ok /\ ~timers[last'.obj].running) =>
        /\ file' = [it_interval |-> timers[last'.obj].timer_interval,
                    it_value    |-> timers[last'.obj].timer_value]
        /\ timers' = timers

C12_Read ==
    (last'.op = "from_fstream" /\ last'.err = Ok /\ file # NoRecord) =>
        /\ ~timers[last'.obj].running
        /\ timers' = [timers EXCEPT ![last'.obj].timer_interval = file.it_interval,
                                    ![last'.obj].timer_value = file.it_value]

C12_WriteRead ==
    (/\ last.op = "to_fstream" /\ last.err = Ok /\ ~timers[last.obj].running
     /\ last'.op = "from_fstream" /\ last'.err = Ok /\ last'.obj = last.obj)
    => timers' = timers

\* C12: to_fstream() of a stopped timer writes its interval and value;
\* from_fstream() of a stopped timer sets its interval and value to the
\* ones written and leaves its speed factor and running flag as they were;
\* so from_fstream() directly after to_fstream() leaves the timer as it was
C12_Snapshot == [][C12_Write]_vars /\ [][C12_Read]_vars /\ [][C12_WriteRead]_vars

\* a timer that was started, ran and was stopped has read back, at a speed
\* factor that is not 1.0, a value that is not its interval
C12_Witness ==
    /\ On("from_fstream")
    /\ last.err = Ok
    /\ file # NoRecord
    /\ used.starts = 1
    /\ used.ticks = 1
    /\ ~Callee.running
    /\ Callee.speed_factor # F1
    /\ Callee.timer_value = file.it_value
    /\ Callee.timer_value # Callee.timer_interval

C13_Destroy ==
    last'.op = "destroy" =>
        IF timers[last'.obj].running
        THEN /\ last'.calls = <<"setitimer">>
             /\ last'.err = Ok =>
                    /\ clock' = [clock EXCEPT ![last'.arg] = STOP_TIMER]
                    /\ timers'[last'.obj] = NoTimer
                    /\ ~exited'
             /\ last'.err # Ok =>
                    /\ exited'
                    /\ clock' = clock
        ELSE /\ last'.calls = <<>>
             /\ last'.err = Ok
             /\ clock' = clock
             /\ timers'[last'.obj] = NoTimer
             /\ ~exited'

C13_Exited == ~exited

\* C13: the destruction of a running timer calls setitimer once, to stop
\* it: if the call succeeds the clock is left disarmed and the object is
\* gone, if it fails the process exits, and no step is taken after the exit;
\* the destruction of a stopped timer makes no system call, leaves every
\* clock as it is and completes
C13_Destruction == [][C13_Destroy]_vars /\ [][C13_Exited]_vars

\* the process has exited in the destructor of a running timer whose clock
\* is still armed
C13_Witness ==
    /\ exited
    /\ last.op = "destroy"
    /\ last.err = ClockProgrammingFailed
    /\ timers[last.obj].running
    /\ Armed(last.arg)

\* the last call scaled the result of a scaling with the same operator
ScaledTwice ==
    /\ last.op \in {Times, Over}
    /\ last.arg.of # NoValue
    /\ last.arg.of.op = last.op

\* scaling once, by the product of the two factors
ScaledOnce == ScaleBy(last.op, last.arg.of.left, FMul(last.arg.of.right, last.arg.right))

\* the whole microseconds the second scaling multiplies one microsecond to
Gain == FTrunc(IF last.op = Times THEN last.arg.right ELSE FDiv(F1, last.arg.right))

\* C14: d scaled by f1 and the result by f2 is at most one microsecond
\* above d scaled by f1 * f2 and at most g + 1 microseconds below it, g
\* being the whole part of what the second scaling multiplies by (f2 for a
\* multiplication, 1 / f2 for a division)
C14_Composition ==
    ScaledTwice =>
        /\ Usec(last.ret) <= Usec(ScaledOnce) + 1
        /\ Usec(ScaledOnce) <= Usec(last.ret) + Gain + 1

\* 7 us times 0.75 times 10 is 50 us, 7 us times 7.5 is 52 us
C14_Witness ==
    /\ ScaledTwice
    /\ last.op = Times
    /\ last.arg.of.left = TV(0, 7)
    /\ last.arg.of.right = F075
    /\ last.arg.right = F10
    /\ last.ret = TV(0, 50)
    /\ ScaledOnce = TV(0, 52)

\* C14 as stated: scaling twice is within one microsecond of scaling once
\* by the product
C14_AsStated ==
    ScaledTwice =>
        /\ Usec(last.ret) <= Usec(ScaledOnce) + 1
        /\ Usec(ScaledOnce) <= Usec(last.ret) + 1

\* the interval and the value start() programs the clock of object o with
LiveInterval(o) == TimevalDiv(timers[o].timer_interval, timers[o].speed_factor)
LiveValue(o) == TimevalDiv(timers[o].timer_value, timers[o].speed_factor)

C15_Start ==
    (/\ last'.op = "start"
     /\ ~timers[last'.obj].running
     /\ LiveInterval(last'.obj) = ZeroTV
     /\ LiveValue(last'.obj).tv_sec >= 0)
    => /\ last'.err = DegenerateInterval
       /\ last'.calls = <<>>
       /\ timers' = timers
       /\ clock' = clock

\* C15: start() on a stopped timer whose interval divided by the speed
\* factor is zero (and whose value is not negative) fails with
\* DegenerateInterval, makes no system call and leaves the object, stopped,
\* and the clock as they are
C15_DegenerateInterval == [][C15_Start]_vars

\* start() has refused an interval of one second that the speed factor
\* scales to less than a microsecond
C15_Witness ==
    /\ On("start")
    /\ last.err = DegenerateInterval
    /\ ~Callee.running
    /\ Callee.timer_interval = TV(1, 0)
    /\ Callee.speed_factor = FHuge
    /\ CalleeClock = STOP_TIMER

\* C16: where no system call fails, the clock of a running timer is
\* programmed with an interval that is not zero
C16_Repeating ==
    \A o \in Objects :
        (Live(o) /\ timers[o].running /\ ~cfg.faults) =>
            clock[timers[o].type].it_interval # ZeroTV

StartFailures == {NegativeInterval, NegativeValue, DegenerateInterval, ClockProgrammingFailed}

C17_Start ==
    last'.op = "start" =>
        /\ last'.err \in StartFailures \cup {AlreadyStarted, Ok}
        /\ last'.err \in StartFailures =>
               /\ ~timers[last'.obj].running
               /\ timers' = timers
        /\ (timers'[last'.obj].running /\ ~timers[last'.obj].running) =>
               /\ last'.err = Ok
               /\ last'.calls = <<"setitimer">>
               /\ clock'[timers[last'.obj].type] =
                      [it_interval |-> LiveInterval(last'.obj), it_value |-> LiveValue(last'.obj)]
               /\ timers' = [timers EXCEPT ![last'.obj].running = TRUE]

\* C17: a start() that fails with NegativeInterval, NegativeValue,
\* DegenerateInterval or ClockProgrammingFailed leaves the timer stopped
\* and its interval, value and speed factor as they were; running becomes
\* true only in a start() whose setitimer call succeeded
C17_FailedStart == [][C17_Start]_vars

\* the setitimer call of start() has failed at a speed factor that is not
\* 1.0: the timer is stopped and its clock disarmed
C17_Witness ==
    /\ On("start")
    /\ last.err = ClockProgrammingFailed
    /\ last.calls = <<"setitimer">>
    /\ ~Callee.running
    /\ Callee.speed_factor = F2
    /\ CalleeClock = STOP_TIMER

C18_Stop ==
    (last'.op = "stop" /\ last'.err = Ok) =>
        /\ timers[last'.obj].running
        /\ last'.calls = <<"setitimer">>
        /\ clock' = [clock EXCEPT ![timers[last'.obj].type] = STOP_TIMER]
        /\ timers' = [timers EXCEPT
                         ![last'.obj].timer_value =
                             TimevalMul(clock[timers[last'.obj].type].it_value,
                                        timers[last'.obj].speed_factor),
                         ![last'.obj].running = FALSE]

\* C18: a successful stop() of a running timer programs the clock with
\* interval zero and value zero in one setitimer call, sets the value of
\* the timer to what was left on the clock times the speed factor, leaves
\* interval and speed factor as they were and sets running to false
C18_SuccessfulStop == [][C18_Stop]_vars

\* a timer whose speed was changed to 2.0 while it ran has been stopped
\* with time left on the clock: its value is not its interval and not zero
C18_Witness ==
    /\ On("stop")
    /\ last.err = Ok
    /\ ~Callee.running
    /\ Callee.speed_factor = F2
    /\ used.adjusts >= 1
    /\ used.ticks >= 1
    /\ CalleeClock = STOP_TIMER
    /\ Callee.timer_value # ZeroTV
    /\ Callee.timer_value # Callee.timer_interval

\* a stop() whose system call has failed
StopFailed == last'.op = "stop" /\ last'.calls = <<"setitimer">> /\ last'.err # Ok

C19_Stop ==
    StopFailed =>
        /\ last'.err = ClockProgrammingFailed
        /\ timers[last'.obj].running
        /\ timers' = timers
        /\ clock' = clock

C19_Retry ==
    (/\ last.op = "stop" /\ last.err = ClockProgrammingFailed
     /\ last'.op = "stop" /\ last'.obj = last.obj)
    => /\ last'.err \in {Ok, ClockProgrammingFailed}
       /\ last'.calls = <<"setitimer">>

\* C19: a stop() whose setitimer call fails throws the system_error "call
\* of setitimer failed", the error of every failed setitimer call
\* (ClockProgrammingFailed), and leaves the timer running with interval,
\* value and speed factor as they were; a stop() that follows makes the
\* call again
C19_FailedStop == [][C19_Stop]_vars /\ [][C19_Retry]_vars

\* stop() has failed on a timer whose clock counts down at a speed factor
\* that is not 1.0
C19_Witness ==
    /\ On("stop")
    /\ last.err = ClockProgrammingFailed
    /\ Callee.running
    /\ Callee.speed_factor = F2
    /\ used.adjusts = 1
    /\ Armed(Callee.type)

C19_Stated ==
    StopFailed =>
        /\ last'.err = ClockReadFailed
        /\ timers[last'.obj].running
        /\ timers' = timers

\* C19 as stated: a stop() whose system call fails throws the error of a
\* failed getitimer call (ClockReadFailed) and leaves the timer running
\* and unchanged
C19_AsStated == [][C19_Stated]_vars

C20_Adjust ==
    (last'.op = "set_speed_factor" /\ last'.err = Ok /\ timers[last'.obj].running) =>
        /\ last'.calls = <<"setitimer", "setitimer">>
        /\ clock'[timers[last'.obj].type].it_value =
               TimevalMul(clock[timers[last'.obj].type].it_value,
                          FDiv(timers[last'.obj].speed_factor, last'.arg))
        /\ timers' = [timers EXCEPT ![last'.obj].speed_factor = last'.arg]

\* C20: a successful set_speed_factor(f) of a running timer stops the
\* clock and programs it again with the value that was left on it times
\* (speed factor / f), as operator*= computes it; the speed factor becomes
\* f, and running (true), the interval and the value of the timer stay as
\* they are
C20_LiveValue == [][C20_Adjust]_vars

\* after a tick and a second change of speed the clock holds a value that
\* is not the value of the timer divided by the speed factor
C20_Witness ==
    /\ SpeedChanged
    /\ last.op = "set_speed_factor"
    /\ used.ticks >= 1
    /\ used.adjusts >= 2
    /\ CalleeClock.it_value # ZeroTV
    /\ CalleeClock.it_value # TimevalDiv(Callee.timer_value, Callee.speed_factor)

\* a change of speed of a running timer
SpeedChange ==
    /\ last'.op \in {"set_speed_factor", "set_speed_to_normal"}
    /\ timers[last'.obj].running

C21_Adjust ==
    SpeedChange =>
        /\ last'.err \in {Ok, InvalidSpeedFactor, ClockProgrammingFailed}
        /\ last'.err = ClockProgrammingFailed =>
               /\ last'.calls \in {<<"setitimer">>, <<"setitimer", "setitimer">>}
               /\ timers' = timers
        /\ timers'[last'.obj].speed_factor # timers[last'.obj].speed_factor =>
               /\ last'.err = Ok
               /\ last'.calls = <<"setitimer", "setitimer">>

\* C21: a change of speed of a running timer in which the first or the
\* second setitimer call fails throws the system_error of a failed
\* setitimer call and leaves speed factor, interval, value and running
\* flag as they were; the speed factor changes only when both calls
\* succeeded
C21_Committed == [][C21_Adjust]_vars

\* the second setitimer call of set_speed_factor(2.0) has failed: the speed
\* factor is still 1.0 and the timer is running
C21_Witness ==
    /\ On("set_speed_factor")
    /\ last.err = ClockProgrammingFailed
    /\ last.calls = <<"setitimer", "setitimer">>
    /\ last.arg = F2
    /\ Callee.running
    /\ Callee.speed_factor = F1

C22_Set ==
    (/\ last'.op = "set_speed_factor"
     /\ ~timers[last'.obj].running
     /\ ~InvalidFactor(last'.arg))
    => /\ last'.err = Ok
       /\ last'.calls = <<>>
       /\ clock' = clock
       /\ timers' = [timers EXCEPT ![last'.obj].speed_factor = last'.arg]

C22_Start ==
    (last'.op = "start" /\ last'.err = Ok) =>
        clock'[timers[last'.obj].type] =
            [it_interval |-> TimevalDiv(timers[last'.obj].timer_interval,
                                        timers[last'.obj].speed_factor),
             it_value    |-> TimevalDiv(timers[last'.obj].timer_value,
                                        timers[last'.obj].speed_factor)]

C22_SetStart ==
    (/\ last.op = "set_speed_factor" /\ last.err = Ok
     /\ last'.op = "start" /\ last'.err = Ok /\ last'.obj = last.obj)
    => clock'[timers[last'.obj].type] =
           [it_interval |-> TimevalDiv(timers[last'.obj].timer_interval, last.arg),
            it_value    |-> TimevalDiv(timers[last'.obj].timer_value, last.arg)]

\* C22: set_speed_factor(f), f finite and positive, on a stopped timer
\* makes no system call and changes the speed factor to f and nothing
\* else; a successful start() programs the clock with the interval and the
\* value of the timer divided by its speed factor, which is f when the
\* start() follows the set_speed_factor(f)
C22_StoppedSpeed == [][C22_Set]_vars /\ [][C22_Start]_vars /\ [][C22_SetStart]_vars

\* a timer of interval 1.2 s and value 2.3 s has been started at the speed
\* factor 0.75 it was given while stopped
C22_Witness ==
    /\ On("start")
    /\ last.err = Ok
    /\ Callee.speed_factor = F075
    /\ used.adjusts = 0
    /\ CalleeClock.it_interval = TimevalDiv(TV(1, 200000), F075)
    /\ CalleeClock.it_value = TimevalDiv(TV(2, 300000), F075)
    /\ CalleeClock.it_interval # Callee.timer_interval

\* a snapshot of a running timer, of a stopped timer, has been written
WrittenRunning == last'.op = "to_fstream" /\ last'.err = Ok /\ timers[last'.obj].running
WrittenStopped == last'.op = "to_fstream" /\ last'.err = Ok /\ ~timers[last'.obj].running

C23_Frame ==
    last'.op = "to_fstream" =>
        /\ timers' = timers
        /\ clock' = clock
        /\ last'.err # Ok => file' = file

C23_Write ==
    /\ WrittenStopped =>
           file' = [it_interval |-> timers[last'.obj].timer_interval,
                    it_value    |-> timers[last'.obj].timer_value]
    /\ WrittenRunning =>
           file' = [it_interval |-> timers[last'.obj].timer_interval,
                    it_value    |-> TimevalMul(clock[timers[last'.obj].type].it_value,
                                               timers[last'.obj].speed_factor)]

\* C23: to_fstream() writes the interval and the value of a stopped timer;
\* of a running timer it writes the interval of the timer, not the one the
\* clock reloads, and the value left on the clock times the speed factor;
\* it changes neither the timer nor the clock
C23_Record == [][C23_Frame]_vars /\ [][C23_Write]_vars

\* the record of a timer running at speed factor 2.0 holds an interval that
\* is not the interval of the clock and a value that is not the value of
\* the clock
C23_Witness ==
    /\ On("to_fstream")
    /\ last.err = Ok
    /\ Callee.running
    /\ Callee.speed_factor = F2
    /\ file.it_interval = Callee.timer_interval
    /\ file.it_interval # CalleeClock.it_interval
    /\ file.it_value = TimevalMul(CalleeClock.it_value, F2)
    /\ file.it_value # CalleeClock.it_value

C23_Stated ==
    /\ WrittenStopped =>
           file' = [it_interval |-> timers[last'.obj].timer_interval,
                    it_value    |-> timers[last'.obj].timer_value]
    /\ WrittenRunning => file' = clock[timers[last'.obj].type]

\* C23 as stated: the record of a running timer is the interval and the
\* value the clock holds
C23_AsStated == [][C23_Frame]_vars /\ [][C23_Stated]_vars

\* C24: the flag of a kind is set as long as the clock of a running timer
\* of the kind is armed: a destructor clears the flag only after it has
\* stopped the clock
C24_StopFirst ==
    \A o \in Objects :
        (Live(o) /\ timers[o].running /\ Armed(timers[o].type)) =>
            instance_exists[timers[o].type]

\* the clock of the object whose call is in progress
PendingClock == timers[last.obj].type

C25_Disabled ==
    Pending =>
        /\ Live(last.obj)
        /\ timers[last.obj].running
        /\ last.calls = <<"setitimer">>
        /\ clock[PendingClock] = STOP_TIMER

C25_Capture ==
    (~Pending /\ last'.err = InProgress) =>
        /\ last'.ret = clock[timers[last'.obj].type]
        /\ clock' = [clock EXCEPT ![timers[last'.obj].type] = STOP_TIMER]
        /\ timers' = timers

C25_Quiet ==
    (Pending /\ last'.err = InProgress) =>
        /\ last' = last
        /\ clock'[PendingClock] = clock[PendingClock]
        /\ watch'[PendingClock] = watch[PendingClock]
        /\ timers' = timers

C25_Return ==
    (Pending /\ last'.err = Ok) =>
        /\ last'.op = last.op
        /\ last'.obj = last.obj
        /\ last.op = "stop" =>
               /\ timers'[last.obj].timer_value =
                      TimevalMul(last.ret.it_value, timers[last.obj].speed_factor)
               /\ clock' = clock
        /\ last.op = "set_speed_factor" =>
               clock'[PendingClock].it_value =
                   TimevalMul(last.ret.it_value,
                              FDiv(timers[last.obj].speed_factor, last.arg))

\* C25: the first setitimer call of stop() and of a change of speed of a
\* running timer returns what the clock held and disarms the clock in the
\* same step; while the call is in progress, whatever the other clocks do,
\* its clock stays disarmed and neither counts down nor expires; the value
\* stop() stores and the value the change of speed programs are computed
\* from what was captured
C25_Atomic ==
    []C25_Disabled /\ [][C25_Capture]_vars /\ [][C25_Quiet]_vars /\ [][C25_Return]_vars

\* a change of speed is in progress on a clock that was captured half way
\* through its countdown, and the clock of the other kind is counting down
C25_Witness ==
    /\ Pending
    /\ last.op = "set_speed_factor"
    /\ last.ret.it_value = TV(0, 699999)
    /\ last.ret.it_value # last.ret.it_interval
    /\ clock[PendingClock] = STOP_TIMER
    /\ \E K \in Kinds : Armed(K) /\ clock[K].it_value # clock[K].it_interval

\* the objects that are stopped
Stopped == {o \in Objects : Live(o) /\ ~timers[o].running}

C26_Disarmed ==
    \A o \in Stopped : ~Armed(timers[o].type)

C26_Silent ==
    last'.op \in {"elapse", "expire"} =>
        \A o \in Stopped :
            /\ clock'[timers[o].type] = clock[timers[o].type]
            /\ watch'[timers[o].type] = watch[timers[o].type]

\* C26: in every reachable state the clock of the kind of a stopped timer
\* has no time left on it, whatever calls were made on the timer before
\* and whichever of their clock calls failed; a step of the clocks neither
\* counts down nor expires the clock of a stopped timer
C26_StoppedDisarmed == []C26_Disarmed /\ [][C26_Silent]_vars

\* a timer has been stopped after a change of its speed had failed in the
\* second clock call, the clock disarmed by the first: its speed factor is
\* the old one, its value zero, and nothing is left on its clock
C26_Witness ==
    /\ On("stop")
    /\ last.err = Ok
    /\ cfg.faults
    /\ used.adjusts = 1
    /\ last.obj \in Stopped
    /\ Callee.speed_factor = F1
    /\ Callee.timer_value = ZeroTV
    /\ Callee.timer_value # Callee.timer_interval
    /\ CalleeClock = STOP_TIMER

C27_Arms ==
    (/\ last'.err = Ok
     /\ \/ last'.op = "start"
        \/ SpeedChange) =>
        /\ timers'[last'.obj].running
        /\ clock'[timers[last'.obj].type].it_value # ZeroTV

\* C27: after a start() that succeeded and after a change of speed of a
\* running timer that succeeded, the clock of the timer has time left on
\* it, also where the value of the timer is zero and where the scaling
\* truncates the value to zero
C27_Armed == [][C27_Arms]_vars

====
